---- MODULE Spec2Model ----
(***************************************************************************)
(* A model of marvin::math (include/marvin/math/marvin_Math.h):            *)
(*   - remap (three- and five-argument forms),                             *)
(*   - rms over one sequence and over a sequence of channels,              *)
(*   - interleavedToComplexView / complexViewToInterleaved, the zero-copy  *)
(*     reinterpretation of a run of reals as a run of std::complex.        *)
(*                                                                         *)
(* FloatType T is modelled by the extended rationals: a value is a pair    *)
(* <<n, d>> in lowest terms with d > 0, and the IEEE-754 results of a      *)
(* division by zero are <<0, 0>> (NaN), <<1, 0>> (+inf) and <<-1, 0>>      *)
(* (-inf).  Arithmetic is exact: rounding, overflow and signed zeros are   *)
(* outside the model.  std::sqrt of a value that has no rational root is   *)
(* the surd <<n, d, 2>>.                                                   *)
(***************************************************************************)
EXTENDS Integers, Sequences, FiniteSets, TLC

\* ------------------------------------------------------------------ bounds
MaxNum == 2      \* numerators of the remap inputs range over -MaxNum..MaxNum
MaxDen == 2      \* denominators of the remap inputs range over 1..MaxDen
MaxLen == 2      \* longest channel handed to rms
MaxChannels == 2 \* most channels handed to rms
MemSize == 4     \* cells (of sizeof(T) bytes) of caller-owned memory

\* ------------------------------------------------- the floating type T
Abs(i) == IF i < 0 THEN -i ELSE i

Sign(i) == IF i < 0 THEN -1 ELSE IF i > 0 THEN 1 ELSE 0

RECURSIVE Gcd(_, _)
Gcd(a, b) == IF b = 0 THEN a ELSE Gcd(b, a % b)

NaN == <<0, 0>>

Inf(s) == <<s, 0>>

Norm(n, d) ==
    IF d = 0 THEN <<Sign(n), 0>>
    ELSE LET g == Gcd(Abs(n), Abs(d))
         IN  <<(Sign(d) * n) \div g, Abs(d) \div g>>

FromInt(i) == <<i, 1>>

IsNaN(a) == a = NaN

IsInf(a) == a[2] = 0 /\ a[1] # 0

\* operator+ on T
FAdd(a, b) ==
    IF IsNaN(a) \/ IsNaN(b) THEN NaN
    ELSE IF IsInf(a) THEN (IF IsInf(b) /\ b[1] # a[1] THEN NaN ELSE a)
    ELSE IF IsInf(b) THEN b
    ELSE Norm(a[1] * b[2] + b[1] * a[2], a[2] * b[2])

\* operator- on T
FSub(a, b) ==
    IF IsNaN(a) \/ IsNaN(b) THEN NaN
    ELSE IF IsInf(a) THEN (IF IsInf(b) /\ b[1] = a[1] THEN NaN ELSE a)
    ELSE IF IsInf(b) THEN Inf(-b[1])
    ELSE Norm(a[1] * b[2] - b[1] * a[2], a[2] * b[2])

\* operator* on T
FMul(a, b) ==
    IF IsNaN(a) \/ IsNaN(b) THEN NaN
    ELSE IF IsInf(a) \/ IsInf(b)
         THEN (IF a[1] = 0 \/ b[1] = 0 THEN NaN ELSE Inf(Sign(a[1]) * Sign(b[1])))
    ELSE Norm(a[1] * b[1], a[2] * b[2])

\* operator/ on T: x/0 is +-inf for x # 0 and NaN for x = 0 (the zero
\* produced by a subtraction of equal values is +0)
FDiv(a, b) ==
    IF IsNaN(a) \/ IsNaN(b) THEN NaN
    ELSE IF IsInf(b) THEN (IF IsInf(a) THEN NaN ELSE FromInt(0))
    ELSE IF IsInf(a) THEN Inf(IF b[1] < 0 THEN -a[1] ELSE a[1])
    ELSE IF b[1] = 0 THEN (IF a[1] = 0 THEN NaN ELSE Inf(Sign(a[1])))
    ELSE Norm(a[1] * b[2], a[2] * b[1])

\* operator== on T: NaN compares unequal to everything, itself included
FEq(a, b) == ~IsNaN(a) /\ ~IsNaN(b) /\ a = b

\* operator<= on T
FLeq(a, b) ==
    /\ ~IsNaN(a) /\ ~IsNaN(b)
    /\ IF IsInf(a) THEN (a[1] < 0 \/ a = b)
       ELSE IF IsInf(b) THEN b[1] > 0
       ELSE a[1] * b[2] <= b[1] * a[2]

RECURSIVE ISqrtFrom(_, _)
ISqrtFrom(n, r) == IF (r + 1) * (r + 1) > n THEN r ELSE ISqrtFrom(n, r + 1)

ISqrt(n) == ISqrtFrom(n, 0)

IsSquare(n) == n >= 0 /\ ISqrt(n) * ISqrt(n) = n

\* std::sqrt: exact where the root is rational, the surd <<n, d, 2>> otherwise
StdSqrt(a) ==
    IF IsNaN(a) \/ a[1] < 0 THEN NaN
    ELSE IF IsInf(a) THEN a
    ELSE IF IsSquare(a[1]) /\ IsSquare(a[2]) THEN <<ISqrt(a[1]), ISqrt(a[2])>>
    ELSE <<a[1], a[2], 2>>

\* ---------------------------------------------------------------- remap
remap3(x, newMin, newMax) ==
    LET rescaled == FAdd(FMul(x, FSub(newMax, newMin)), newMin)
    IN  rescaled

\* faulty variant: the source range's width taken as srcMax alone
remap5_WidthIsMax(x, srcMin, srcMax, newMin, newMax) ==
    LET normalised == FDiv(FSub(x, srcMin), srcMax)
    IN  remap3(normalised, newMin, newMax)

remap5(x, srcMin, srcMax, newMin, newMax) ==
    LET normalised == FDiv(FSub(x, srcMin), FSub(srcMax, srcMin))
    IN  remap3(normalised, newMin, newMax)

\* ------------------------------------------------------------------ rms
\* std::accumulate(first, last, init, op): a left fold
RECURSIVE SumSquares(_, _)
SumSquares(acc, s) ==
    IF s = <<>> THEN acc
    ELSE SumSquares(FAdd(acc, FMul(Head(s), Head(s))), Tail(s))

\* faulty variant: the empty case is not special
rms_NoEmptyGuard(data) ==
    LET sum == SumSquares(FromInt(0), data)
        mean == FDiv(sum, FromInt(Len(data)))
    IN  StdSqrt(mean)

rms(data) ==
    IF data = <<>> THEN FromInt(0)
    ELSE LET sum == SumSquares(FromInt(0), data)
             mean == FDiv(sum, FromInt(Len(data)))
         IN  StdSqrt(mean)

\* faulty variant: each channel contributes its RMS, not its mean square
getChannelMean_Rms(channel) ==
    IF channel = <<>> THEN FromInt(0)
    ELSE LET sum == SumSquares(FromInt(0), channel)
         IN  StdSqrt(FDiv(sum, FromInt(Len(channel))))

getChannelMean(channel) ==
    IF channel = <<>> THEN FromInt(0)
    ELSE LET sum == SumSquares(FromInt(0), channel)
         IN  FDiv(sum, FromInt(Len(channel)))

RECURSIVE SumChannelMeans(_, _)
SumChannelMeans(acc, chs) ==
    IF chs = <<>> THEN acc
    ELSE SumChannelMeans(FAdd(acc, getChannelMean(Head(chs))), Tail(chs))

rmsChannels(data) ==
    IF data = <<>> THEN FromInt(0)
    ELSE LET sum == SumChannelMeans(FromInt(0), data)
             mean == FDiv(sum, FromInt(Len(data)))
         IN  StdSqrt(mean)

\* ------------------------------------------------------------ the state
VARIABLES
    mem,        \* caller-owned storage: cell address -> value of type T
    data,       \* the caller's std::span<T>: [ptr, size]
    ndebug,     \* TRUE when the build defines NDEBUG (assert compiled out)
    cview,      \* the std::span<std::complex<T>> in hand, or NoView
    cviewOf,    \* "none", "data" (returned by interleavedToComplexView(data))
                \* or "caller" (a complex buffer of the caller's own)
    iview,      \* the std::span<T> returned by complexViewToInterleaved(cview)
    aborted,    \* TRUE once a failed assert has aborted the process
    lastCall,   \* the view function called last: "none", "i2c" or "c2i"
    lastWrite,  \* the latest store made through a view, or NoWrite
    argX, argLo, argHi,  \* x and a range [lo, hi] handed to remap
    remapOut,   \* the last remap call: [fn, newMin, newMax, val]
    chans,      \* the channels handed to rms(std::span<std::span<T>>)
    rmsOut      \* the last rms call: [fn, ch, val]; fn = "rms" was handed chans[ch]

viewVars == <<mem, data, ndebug, cview, cviewOf, iview, aborted, lastCall, lastWrite>>

remapVars == <<argX, argLo, argHi, remapOut>>

rmsVars == <<chans, rmsOut>>

vars == <<viewVars, remapVars, rmsVars>>

\* ------------------------------------------------ layout reinterpretation
Cells == 0 .. MemSize - 1

CellVals == {0, 1}

NoView == [ptr |-> -1, size |-> -1]

NoWrite == [via |-> "none", idx |-> 0, part |-> 0, val |-> 0]

\* every std::span<T> the caller can form over its storage
RealSpans == {s \in [ptr : Cells, size : 0 .. MemSize] : s.ptr + s.size <= MemSize}

\* every std::span<std::complex<T>> the caller can form over its storage
ComplexSpans == {s \in [ptr : Cells, size : 0 .. MemSize] : s.ptr + 2 * s.size <= MemSize}

\* address of element k of a std::span<T>
RealCell(span, k) == span.ptr + k

\* faulty variant: imaginary part first
ComplexCell_ImagFirst(span, i, part) == span.ptr + 2 * i + (1 - part)

\* address of part 0 (real) or 1 (imaginary) of element i of a
\* std::span<std::complex<T>>: a complex is two adjacent T, real part first
ComplexCell(span, i, part) == span.ptr + 2 * i + part

RealAt(span, k) == mem[RealCell(span, k)]

ComplexAt(span, i) == <<mem[ComplexCell(span, i, 0)], mem[ComplexCell(span, i, 1)]>>

\* faulty variant: the check is made in every build
interleavedToComplexViewAborts_AlwaysChecked(d, nd) == d.size % 2 # 0

\* assert(data.size() % 2 == 0): aborts unless NDEBUG is defined
interleavedToComplexViewAborts(d, nd) == ~nd /\ d.size % 2 # 0

\* faulty variant: the length is not halved
interleavedToComplexView_NotHalved(d) == [ptr |-> d.ptr, size |-> d.size]

\* faulty variant: the length is halved rounding up
interleavedToComplexView_RoundedUp(d) == [ptr |-> d.ptr, size |-> (d.size + 1) \div 2]

interleavedToComplexView(d) == [ptr |-> d.ptr, size |-> d.size \div 2]

\* faulty variant: the evenness assert of interleavedToComplexView, copied over
complexViewToInterleavedAborts_EvenOnly(d, nd) == ~nd /\ d.size % 2 # 0

\* complexViewToInterleaved holds no assert
complexViewToInterleavedAborts(d, nd) == FALSE

\* faulty variant: the length is not doubled
complexViewToInterleaved_NotDoubled(d) == [ptr |-> d.ptr, size |-> d.size]

complexViewToInterleaved(d) == [ptr |-> d.ptr, size |-> d.size * 2]

ViewInit ==
    /\ mem \in [Cells -> CellVals]
    /\ data \in RealSpans
    /\ ndebug \in BOOLEAN
    /\ cview = NoView
    /\ cviewOf = "none"
    /\ iview = NoView
    /\ aborted = FALSE
    /\ lastCall = "none"
    /\ lastWrite = NoWrite

ViewIdle ==
    /\ mem = [c \in Cells |-> 0]
    /\ data = [ptr |-> 0, size |-> 0]
    /\ ndebug = FALSE
    /\ cview = NoView
    /\ cviewOf = "none"
    /\ iview = NoView
    /\ aborted = FALSE
    /\ lastCall = "none"
    /\ lastWrite = NoWrite

\* faulty variant: the call clears the first element it is handed
InterleavedToComplexViewCall_Clears ==
    /\ ~aborted
    /\ lastCall' = "i2c"
    /\ cview' = interleavedToComplexView(data)
    /\ cviewOf' = "data"
    /\ iview' = NoView
    /\ lastWrite' = NoWrite
    /\ mem' = IF data.size > 0 THEN [mem EXCEPT ![data.ptr] = 0] ELSE mem
    /\ UNCHANGED <<data, ndebug, aborted>>
    /\ UNCHANGED <<remapVars, rmsVars>>

\* cview = interleavedToComplexView(data)
InterleavedToComplexViewCall ==
    /\ ~aborted
    /\ lastCall' = "i2c"
    /\ IF interleavedToComplexViewAborts(data, ndebug)
       THEN /\ aborted' = TRUE
            /\ UNCHANGED <<cview, cviewOf, iview, lastWrite>>
       ELSE /\ cview' = interleavedToComplexView(data)
            /\ cviewOf' = "data"
            /\ iview' = NoView
            /\ lastWrite' = IF lastWrite.via = "data" THEN lastWrite ELSE NoWrite
            /\ UNCHANGED aborted
    /\ UNCHANGED <<mem, data, ndebug>>
    /\ UNCHANGED <<remapVars, rmsVars>>

\* iview = complexViewToInterleaved(cview)
ComplexViewToInterleavedCall ==
    /\ ~aborted
    /\ cview # NoView
    /\ lastCall' = "c2i"
    /\ IF complexViewToInterleavedAborts(cview, ndebug)
       THEN /\ aborted' = TRUE
            /\ UNCHANGED iview
       ELSE /\ iview' = complexViewToInterleaved(cview)
            /\ UNCHANGED aborted
    /\ UNCHANGED <<mem, data, ndebug, cview, cviewOf, lastWrite>>
    /\ UNCHANGED <<remapVars, rmsVars>>

\* the caller takes a span over a complex buffer of its own
CallerComplexBuffer(s) ==
    /\ ~aborted
    /\ cview' = s
    /\ cviewOf' = "caller"
    /\ iview' = NoView
    /\ lastCall' = "none"
    /\ lastWrite' = NoWrite
    /\ UNCHANGED <<mem, data, ndebug, aborted>>
    /\ UNCHANGED <<remapVars, rmsVars>>

\* data[k] = v
WriteData(k, v) ==
    /\ ~aborted
    /\ k < data.size
    /\ mem' = [mem EXCEPT ![RealCell(data, k)] = v]
    /\ lastWrite' = [via |-> "data", idx |-> k, part |-> 0, val |-> v]
    /\ UNCHANGED <<data, ndebug, cview, cviewOf, iview, aborted, lastCall>>
    /\ UNCHANGED <<remapVars, rmsVars>>

\* iview[k] = v
WriteInterleaved(k, v) ==
    /\ ~aborted
    /\ iview # NoView
    /\ k < iview.size
    /\ mem' = [mem EXCEPT ![RealCell(iview, k)] = v]
    /\ lastWrite' = [via |-> "interleaved", idx |-> k, part |-> 0, val |-> v]
    /\ UNCHANGED <<data, ndebug, cview, cviewOf, iview, aborted, lastCall>>
    /\ UNCHANGED <<remapVars, rmsVars>>

\* cview[i].real(v) (part 0) or cview[i].imag(v) (part 1)
WriteComplex(i, part, v) ==
    /\ ~aborted
    /\ cview # NoView
    /\ i < cview.size
    /\ mem' = [mem EXCEPT ![ComplexCell(cview, i, part)] = v]
    /\ lastWrite' = [via |-> "complex", idx |-> i, part |-> part, val |-> v]
    /\ UNCHANGED <<data, ndebug, cview, cviewOf, iview, aborted, lastCall>>
    /\ UNCHANGED <<remapVars, rmsVars>>

\* ---------------------------------------------------------- remap calls
\* one call per run: a call is made on the arguments Init drew
RemapVals == {Norm(n, d) : n \in -MaxNum .. MaxNum, d \in 1 .. MaxDen}

NoRemap == [fn |-> "none", newMin |-> FromInt(0), newMax |-> FromInt(0), val |-> FromInt(0)]

RemapInit ==
    /\ argX \in RemapVals
    /\ argLo \in RemapVals
    /\ argHi \in RemapVals
    /\ remapOut = NoRemap

RemapIdle ==
    /\ argX = FromInt(0)
    /\ argLo = FromInt(0)
    /\ argHi = FromInt(0)
    /\ remapOut = NoRemap

\* remap(x, lo, hi)
Remap3Call ==
    /\ remapOut = NoRemap
    /\ remapOut' = [fn |-> "remap3", newMin |-> argLo, newMax |-> argHi,
                    val |-> remap3(argX, argLo, argHi)]
    /\ UNCHANGED <<argX, argLo, argHi>>
    /\ UNCHANGED <<viewVars, rmsVars>>

\* remap(x, lo, hi, newMin, newMax)
Remap5Call(newMin, newMax) ==
    /\ remapOut = NoRemap
    /\ remapOut' = [fn |-> "remap5", newMin |-> newMin, newMax |-> newMax,
                    val |-> remap5(argX, argLo, argHi, newMin, newMax)]
    /\ UNCHANGED <<argX, argLo, argHi>>
    /\ UNCHANGED <<viewVars, rmsVars>>

\* ------------------------------------------------------------ rms calls
SampleVals == {FromInt(0), FromInt(1), FromInt(3)}

SeqsUpTo(S, n) == UNION {[1 .. k -> S] : k \in 0 .. n}

Channels == SeqsUpTo(SampleVals, MaxLen)

NoRms == [fn |-> "none", ch |-> 0, val |-> FromInt(0)]

RmsInit ==
    /\ chans \in SeqsUpTo(Channels, MaxChannels)
    /\ rmsOut = NoRms

RmsIdle ==
    /\ chans = <<>>
    /\ rmsOut = NoRms

\* rms(chans[c]), the std::span<T> overload
RmsCall(c) ==
    /\ c \in 1 .. Len(chans)
    /\ rmsOut' = [fn |-> "rms", ch |-> c, val |-> rms(chans[c])]
    /\ UNCHANGED chans
    /\ UNCHANGED <<viewVars, remapVars>>

\* rms(chans), the std::span<std::span<T>> overload
RmsChannelsCall ==
    /\ rmsOut' = [fn |-> "rmsChannels", ch |-> 0, val |-> rmsChannels(chans)]
    /\ UNCHANGED chans
    /\ UNCHANGED <<viewVars, remapVars>>

\* ------------------------------------------------------- specifications
Init == ViewInit /\ RemapIdle /\ RmsIdle

Next ==
    \/ InterleavedToComplexViewCall
    \/ ComplexViewToInterleavedCall
    \/ \E s \in ComplexSpans : CallerComplexBuffer(s)
    \/ \E k \in Cells, v \in CellVals : WriteData(k, v)
    \/ \E k \in Cells, v \in CellVals : WriteInterleaved(k, v)
    \/ \E i \in Cells, part \in {0, 1}, v \in CellVals : WriteComplex(i, part, v)

Spec == Init /\ [][Next]_vars

InitRemap == ViewIdle /\ RemapInit /\ RmsIdle

NextRemap ==
    \/ Remap3Call
    \/ \E newMin \in RemapVals, newMax \in RemapVals : Remap5Call(newMin, newMax)

SpecRemap == InitRemap /\ [][NextRemap]_vars

InitRms == ViewIdle /\ RemapIdle /\ RmsInit

NextRms ==
    \/ \E c \in 1 .. MaxChannels : RmsCall(c)
    \/ RmsChannelsCall

SpecRms == InitRms /\ [][NextRms]_vars

\* ----------------------------------------------------- checked properties
Odd(n) == n % 2 = 1

\* the cells a std::span<T> covers
RealCells(span) == {RealCell(span, k) : k \in 0 .. span.size - 1}

\* the cells a std::span<std::complex<T>> covers
ComplexCells(span) == {ComplexCell(span, i, part) : i \in 0 .. span.size - 1, part \in {0, 1}}

\* C1: for a real buffer of even length N, interleavedToComplexView returns a
\* view at the same base address with exactly N/2 complex elements, and the
\* real and imaginary parts of element i are real elements 2i and 2i+1.
C1_ComplexViewOfEvenBuffer ==
    (cviewOf = "data" /\ ~Odd(data.size)) =>
        /\ cview.ptr = data.ptr
        /\ 2 * cview.size = data.size
        /\ \A i \in 0 .. cview.size - 1 :
              /\ ComplexAt(cview, i)[1] = RealAt(data, 2 * i)
              /\ ComplexAt(cview, i)[2] = RealAt(data, 2 * i + 1)

C1_Witness ==
    /\ cviewOf = "data"
    /\ data.size = 4
    /\ cview.size = 2
    /\ ComplexAt(cview, 1) = <<0, 1>>
    /\ ComplexAt(cview, 0) = <<1, 0>>

\* C2: for an even-length real buffer b,
\* complexViewToInterleaved(interleavedToComplexView(b)) has b's address and
\* b's length, and reads the same value as b at every index.
C2_RoundTripIsIdentity ==
    (cviewOf = "data" /\ ~Odd(data.size) /\ iview # NoView) =>
        /\ iview.ptr = data.ptr
        /\ iview.size = data.size
        /\ \A k \in 0 .. data.size - 1 : RealAt(iview, k) = RealAt(data, k)

C2_Witness ==
    /\ cviewOf = "data"
    /\ lastCall = "c2i"
    /\ iview = data
    /\ data.size = 2
    /\ data.ptr = 1
    /\ RealAt(iview, 0) # RealAt(iview, 1)

\* C3: the views alias.  The latest store made through the complex view is
\* read back at real position 2i (real part) or 2i+1 (imaginary part) of a
\* freshly derived interleaved view; the latest store made at real position k
\* is read back in complex element k div 2; and the views agree on every
\* cell.
C3_ViewsAlias ==
    /\ (lastWrite.via = "complex") =>
          RealAt(complexViewToInterleaved(cview), 2 * lastWrite.idx + lastWrite.part)
              = lastWrite.val
    /\ (lastWrite.via = "interleaved") =>
          ComplexAt(cview, lastWrite.idx \div 2)[1 + (lastWrite.idx % 2)] = lastWrite.val
    /\ (lastWrite.via = "data" /\ cviewOf = "data" /\ lastWrite.idx \div 2 < cview.size) =>
          ComplexAt(cview, lastWrite.idx \div 2)[1 + (lastWrite.idx % 2)] = lastWrite.val
    /\ (cviewOf = "data") =>
          \A i \in 0 .. cview.size - 1 : \A part \in {0, 1} :
              ComplexAt(cview, i)[1 + part] = RealAt(data, 2 * i + part)
    /\ (cview # NoView) =>
          LET fresh == complexViewToInterleaved(cview)
          IN  \A k \in 0 .. fresh.size - 1 :
                  RealAt(fresh, k) = ComplexAt(cview, k \div 2)[1 + (k % 2)]

C3_Witness ==
    /\ cviewOf = "data"
    /\ lastWrite = [via |-> "complex", idx |-> 1, part |-> 1, val |-> 1]
    /\ RealAt(data, 3) = 1
    /\ RealAt(data, 2) = 0

C5_OddLengthOnlyAsserted ==
    (lastCall = "i2c") =>
        /\ aborted <=> (~ndebug /\ Odd(data.size))
        /\ ~aborted => (cviewOf = "data" /\ cview \in [ptr : Cells, size : 0 .. MemSize])

C5_Witness ==
    /\ lastCall = "i2c"
    /\ aborted
    /\ data.size = 3

\* C6: neither view function changes an element of the underlying memory or
\* the view descriptor it is handed; a call only makes a new descriptor.
C6_ViewCallsAreFrameOnly ==
    [][(InterleavedToComplexViewCall \/ ComplexViewToInterleavedCall) =>
          /\ mem' = mem
          /\ data' = data
          /\ (lastCall' = "c2i") => (cview' = cview)]_vars

C6_Witness ==
    /\ lastCall = "c2i"
    /\ cviewOf = "data"
    /\ data = [ptr |-> 0, size |-> 4]
    /\ mem = [c \in Cells |-> 1]

\* C10: for every length N, odd N with the assertion compiled out included,
\* the complex view returned by interleavedToComplexView starts at the
\* source's base address and covers 2*floor(N/2) <= N real cells, all of them
\* cells of the source; for odd N exactly the last real element is left out.
C10_ComplexViewStaysInBounds ==
    (cviewOf = "data") =>
        /\ cview.ptr = data.ptr
        /\ 2 * cview.size <= data.size
        /\ data.size - 2 * cview.size <= 1
        /\ ComplexCells(cview) \subseteq RealCells(data)
        /\ IF Odd(data.size)
           THEN RealCells(data) \ ComplexCells(cview) = {RealCell(data, data.size - 1)}
           ELSE RealCells(data) = ComplexCells(cview)

C10_Witness ==
    /\ cviewOf = "data"
    /\ ndebug
    /\ data = [ptr |-> 1, size |-> 3]
    /\ cview = [ptr |-> 1, size |-> 1]

\* the sum of the squares of integer samples, in integer arithmetic
RECURSIVE IntSumSquares(_)
IntSumSquares(ch) ==
    IF ch = <<>> THEN 0 ELSE ch[1][1] * ch[1][1] + IntSumSquares(Tail(ch))

\* a channel's mean square as the fraction MeanSqNum / MeanSqDen; an empty
\* channel's is 0 / 1
MeanSqNum(ch) == IntSumSquares(ch)

MeanSqDen(ch) == IF ch = <<>> THEN 1 ELSE Len(ch)

\* the sum of the channels' mean squares as the fraction SumNum / SumDen
RECURSIVE SumDen(_)
SumDen(chs) == IF chs = <<>> THEN 1 ELSE MeanSqDen(Head(chs)) * SumDen(Tail(chs))

RECURSIVE SumNum(_)
SumNum(chs) ==
    IF chs = <<>> THEN 0
    ELSE MeanSqNum(Head(chs)) * SumDen(Tail(chs)) + SumNum(Tail(chs)) * MeanSqDen(Head(chs))

\* the square of a value std::sqrt returned, as a fraction
Squared(v) == IF Len(v) = 3 THEN <<v[1], v[2]>> ELSE <<v[1] * v[1], v[2] * v[2]>>

StereoExample == <<<<FromInt(1), FromInt(1)>>, <<FromInt(3), FromInt(3)>>>>

AverageOfChannelRms(chs) == FDiv(FAdd(rms(chs[1]), rms(chs[2])), FromInt(2))

\* C7: for a non-empty outer sequence, rms(channels) is the non-negative
\* value whose square is the average over all channels (empty ones counted
\* in the divisor and contributing 0) of each channel's mean square; for
\* [[1,1],[3,3]] that square is 5, not the 4 the average of the per-channel
\* RMS values would give.
C7_RmsOfChannels ==
    (rmsOut.fn = "rmsChannels" /\ chans # <<>>) =>
        /\ rmsOut.val[1] >= 0
        /\ Squared(rmsOut.val)[2] > 0
        /\ Squared(rmsOut.val)[1] * SumDen(chans) * Len(chans)
              = Squared(rmsOut.val)[2] * SumNum(chans)
        /\ (chans = StereoExample) =>
              /\ Squared(rmsOut.val) = <<5, 1>>
              /\ Squared(AverageOfChannelRms(chans)) = <<4, 1>>

C7_Witness ==
    /\ rmsOut.fn = "rmsChannels"
    /\ chans = StereoExample
    /\ rmsOut.val = <<5, 1, 2>>

AllZero(ch) == \A i \in 1 .. Len(ch) : ch[i] = FromInt(0)

\* C8: rms of an empty sequence is exactly 0, rms of an empty outer sequence
\* is exactly 0, rms of channels that are each empty or all zeros is exactly
\* 0, and no call divides by a zero length (no result is NaN or infinite).
C8_RmsOfEmptyIsZero ==
    /\ (rmsOut.fn = "rms" /\ chans[rmsOut.ch] = <<>>) => rmsOut.val = FromInt(0)
    /\ (rmsOut.fn = "rmsChannels" /\ \A c \in 1 .. Len(chans) : AllZero(chans[c])) =>
          rmsOut.val = FromInt(0)
    /\ Squared(rmsOut.val)[2] > 0

C8_Witness ==
    /\ rmsOut.fn = "rmsChannels"
    /\ chans = <<<<FromInt(0), FromInt(0)>>, <<>>>>
    /\ rmsOut.val = FromInt(0)

\* remap(x, lo, hi, lo, hi) was called with x in [lo, hi]
SameRangeCall ==
    /\ remapOut.fn = "remap5"
    /\ remapOut.newMin = argLo
    /\ remapOut.newMax = argHi
    /\ FLeq(argLo, argX)
    /\ FLeq(argX, argHi)

\* C9 as stated: remap(x, lo, hi, lo, hi) == x for every lo, hi and every x
\* in [lo, hi].
C9_RemapSameRangeIsIdentity ==
    SameRangeCall => FEq(remapOut.val, argX)

\* C9 as amended: remap(x, lo, hi, lo, hi) is x for every lo < hi and every x
\* in [lo, hi] (in exact arithmetic); for lo = hi the call divides 0 by 0 and
\* returns NaN, which equals nothing.
C9_RemapSameRangeIsIdentityUnlessDegenerate ==
    SameRangeCall =>
        IF argLo = argHi
        THEN IsNaN(remapOut.val) /\ ~FEq(remapOut.val, argX)
        ELSE FEq(remapOut.val, argX)

C9_Witness ==
    /\ SameRangeCall
    /\ argLo = FromInt(-1)
    /\ argHi = FromInt(2)
    /\ argX = <<1, 2>>
    /\ remapOut.val = <<1, 2>>

====
